---- MODULE Spec2Model ----
(***************************************************************************)
(* Cat Breeds Gallery (src/app/page.tsx): the CatBreedsGallery component   *)
(* as a state machine.  A string is a sequence of one-character strings,   *)
(* a breed list and a photo list are sequences of records.                 *)
(***************************************************************************)
EXTENDS Integers, Sequences, FiniteSets, TLC

VARIABLES
    state,          \* the useState values of the last committed render
    queued,         \* the same values with every queued update applied
    dirty,          \* an update is queued: a re-render is scheduled
    batched,        \* handlers and continuations run since the last render
    favoritesSet,   \* a queued update gave favorites a new array
    effects,        \* the passive effects scheduled by the last commit
    localStorage,   \* the value under 'cat-favorites', or Null
    breedsFetch,    \* position of the fetchBreeds call
    requests,       \* per breed, the fetchImages calls waiting on the network
    storedAtMount   \* what 'cat-favorites' held when the component mounted

vars == <<state, queued, dirty, batched, favoritesSet, effects, localStorage,
          breedsFetch, requests, storedAtMount>>

\* localStorage.getItem of a key that was never set
Null == <<"null">>

(***************************************************************************)
(* Strings                                                                 *)
(***************************************************************************)

\* UTF-16 code units of the characters used
CharCode(c) ==
    CASE c = " " -> 32 [] c = "," -> 44
      [] c = "E" -> 69 [] c = "S" -> 83 [] c = "U" -> 85
      [] c = "a" -> 97 [] c = "d" -> 100 [] c = "e" -> 101 [] c = "g" -> 103
      [] c = "i" -> 105 [] c = "n" -> 110 [] c = "p" -> 112 [] c = "s" -> 115
      [] c = "t" -> 116 [] c = "u" -> 117 [] c = "y" -> 121

LowerChar(c) ==
    CASE c = "E" -> "e" [] c = "S" -> "s" [] c = "U" -> "u" [] OTHER -> c

toLowerCaseMissing(s) == s

\* String.prototype.toLowerCase
toLowerCase(s) == [i \in 1..Len(s) |-> LowerChar(s[i])]

\* String.prototype.includes
includes(s, t) ==
    \E i \in 1..(Len(s) - Len(t) + 1) : SubSeq(s, i, i + Len(t) - 1) = t

\* String.prototype.split(','): the pieces between the commas, left to right
RECURSIVE split(_)
split(s) ==
    IF \A i \in 1..Len(s) : s[i] # ","
    THEN <<s>>
    ELSE LET k == CHOOSE i \in 1..Len(s) :
                      s[i] = "," /\ \A j \in 1..(i - 1) : s[j] # ","
         IN  <<SubSeq(s, 1, k - 1)>> \o split(SubSeq(s, k + 1, Len(s)))

\* String.prototype.trim
RECURSIVE trim(_)
trim(s) ==
    IF s = <<>> THEN s
    ELSE IF Head(s) = " " THEN trim(Tail(s))
    ELSE IF s[Len(s)] = " " THEN trim(SubSeq(s, 1, Len(s) - 1))
    ELSE s

\* the default comparison of Array.prototype.sort: by code units, a proper
\* prefix first
RECURSIVE StringLess(_, _)
StringLess(s, t) ==
    IF t = <<>> THEN FALSE
    ELSE IF s = <<>> THEN TRUE
    ELSE IF CharCode(Head(s)) # CharCode(Head(t))
         THEN CharCode(Head(s)) < CharCode(Head(t))
    ELSE StringLess(Tail(s), Tail(t))

\* Array.prototype.indexOf(x) === index kept: the first occurrence of each
RECURSIVE firstOccurrences(_)
firstOccurrences(a) ==
    IF a = <<>> THEN <<>>
    ELSE LET init == SubSeq(a, 1, Len(a) - 1)
             last == a[Len(a)]
         IN  IF \E i \in 1..Len(init) : init[i] = last
             THEN firstOccurrences(init)
             ELSE Append(firstOccurrences(init), last)

sortMissing(a) == a

RECURSIVE insertSorted(_, _)
insertSorted(a, x) ==
    IF a = <<>> THEN <<x>>
    ELSE IF StringLess(x, Head(a)) THEN <<x>> \o a
    ELSE <<Head(a)>> \o insertSorted(Tail(a), x)

\* Array.prototype.sort() with no comparator
RECURSIVE sort(_)
sort(a) ==
    IF a = <<>> THEN <<>> ELSE insertSorted(sort(SubSeq(a, 1, Len(a) - 1)), a[Len(a)])

RECURSIVE flatten(_)
flatten(a) == IF a = <<>> THEN <<>> ELSE Head(a) \o flatten(Tail(a))

(***************************************************************************)
(* Breeds and the derived lists                                            *)
(***************************************************************************)

\* an absent origin (origin?: string) is NoOrigin
NoOrigin == <<"undefined">>

hasOrigin(breed) == breed.origin # NoOrigin /\ breed.origin # <<>>

\* lines 76-79: the trimmed pieces of every truthy origin, in breed order
originPieces(breeds) ==
    LET present == SelectSeq(breeds, hasOrigin)
    IN  flatten([i \in 1..Len(present) |->
            LET p == split(present[i].origin)
            IN  [j \in 1..Len(p) |-> trim(p[j])]])

\* lines 75-83
uniqueOrigins(breeds) == sort(firstOccurrences(originPieces(breeds)))

\* lines 86-92
filteredBreeds(breeds, selectedOrigin) ==
    LET matchesOrigin(breed) ==
            \/ selectedOrigin = <<>>
            \/ /\ hasOrigin(breed)
               /\ includes(toLowerCase(breed.origin), toLowerCase(selectedOrigin))
    IN  SelectSeq(breeds, matchesOrigin)

(***************************************************************************)
(* Photos and the JSON text kept in local storage                          *)
(***************************************************************************)

PhotoIds == {"x", "y"}

\* the CatImage record the API serves under an identifier (lines 15-20):
\* x is a photo of breed a, y a photo of breed b
CatImage(i) ==
    [id |-> i, url |-> IF i = "x" THEN "u" ELSE "v",
     width |-> IF i = "x" THEN 1 ELSE 2, height |-> 1]

Photos == {CatImage(i) : i \in PhotoIds}

\* A JSON text is a sequence of tokens: the punctuation, a quote around
\* each string's content, and a number's digits.
NumberText(n) == IF n = 1 THEN "1" ELSE "2"
NumberValue(t) == IF t = "1" THEN 1 ELSE 2

Quoted(str) == <<"\"", str, "\"">>

stringifyImage(image) ==
    <<"{">> \o Quoted("id") \o <<":">> \o Quoted(image.id) \o <<",">>
            \o Quoted("url") \o <<":">> \o Quoted(image.url) \o <<",">>
            \o Quoted("width") \o <<":", NumberText(image.width), ",">>
            \o Quoted("height") \o <<":", NumberText(image.height), "}">>

RECURSIVE stringifyItems(_)
stringifyItems(a) ==
    IF a = <<>> THEN <<>>
    ELSE IF Len(a) = 1 THEN stringifyImage(a[1])
    ELSE stringifyImage(Head(a)) \o <<",">> \o stringifyItems(Tail(a))

\* JSON.stringify of an array of CatImage
JSONstringify(a) == <<"[">> \o stringifyItems(a) \o <<"]">>

\* the members of an object, read left to right: "key" : value , ...
RECURSIVE parseMembers(_)
parseMembers(toks) ==
    IF toks = <<>> THEN <<>>
    ELSE LET key   == toks[2]
             isStr == toks[5] = "\""
             value == IF isStr THEN toks[6] ELSE NumberValue(toks[5])
             used  == IF isStr THEN 7 ELSE 5
             rest  == SubSeq(toks, used + 1, Len(toks))
         IN  (key :> value) @@
             (IF rest = <<>> THEN <<>> ELSE parseMembers(Tail(rest)))

RECURSIVE parseItems(_)
parseItems(toks) ==
    IF Head(toks) = "]" THEN <<>>
    ELSE LET from  == IF Head(toks) = "," THEN Tail(toks) ELSE toks
             close == CHOOSE i \in 1..Len(from) :
                          from[i] = "}" /\ \A j \in 1..(i - 1) : from[j] # "}"
             m     == parseMembers(SubSeq(from, 2, close - 1))
         IN  <<[id |-> m["id"], url |-> m["url"],
                width |-> m["width"], height |-> m["height"]]>>
             \o parseItems(SubSeq(from, close + 1, Len(from)))

\* JSON.parse of the text of an array of objects
JSONparse(text) == parseItems(Tail(text))

(***************************************************************************)
(* The component                                                           *)
(***************************************************************************)

MaxRequests == 2
MaxBatch == 2

\* the breeds the API lists
Egypt == <<"E", "g", "y", "p", "t">>
UnitedStates == <<"U", "n", "i", "t", "e", "d", " ", "S", "t", "a", "t", "e", "s">>
EgyptUnitedStates == Egypt \o <<",", " ">> \o UnitedStates

BreedA == [id |-> "a", origin |-> Egypt]
BreedB == [id |-> "b", origin |-> EgyptUnitedStates]
BreedC == [id |-> "c", origin |-> NoOrigin]

BreedIds == {"a", "b", "c"}

\* 'All origins' and the origins a list of these breeds may offer
Origins == {<<>>, Egypt, UnitedStates}

\* the bodies a successful GET /v1/breeds may carry
BreedsData == {<<BreedA, BreedB, BreedC>>}

\* the body of a successful GET /v1/images/search?breed_ids=breedId
ImagesData(breedId) ==
    IF breedId = "a" THEN <<CatImage("x")>>
    ELSE IF breedId = "b" THEN <<CatImage("y")>>
    ELSE <<>>

\* how a fetch may fail: a non-success status, a transport failure, a body
\* that cannot be decoded
Failures == {"status", "transport", "decode"}

BreedsError == "breeds"     \* 'Oops! Our kitties are hiding. ...'
ImagesError == "images"     \* 'Our furry friends are camera shy right now! ...'

\* lines 23-34.  dropdownOpen, originDropdownOpen and modalImage are left
\* out: they only unfold a list or the viewer, and nothing but the clicks
\* that set them reads them.
InitialState ==
    [breeds |-> <<>>, selectedBreed |-> "", selectedOrigin |-> <<>>,
     images |-> <<>>, loadingBreeds |-> TRUE, loadingImages |-> FALSE,
     error |-> "",
     favorites |-> <<>>, showFavorites |-> FALSE]

\* what local storage may hold when the page is opened: nothing, or the
\* favorites an earlier visit saved
StoredLists == {<<>>, <<CatImage("x")>>, <<CatImage("x"), CatImage("y")>>}

StoredValues == {Null} \cup {JSONstringify(f) : f \in StoredLists}

MountEffectsSaveFirst == <<"fetchBreeds", "saveFavorites", "loadFavorites">>

\* the effects of the first commit, in the order lines 37-72 declare them
MountEffects == <<"fetchBreeds", "loadFavorites", "saveFavorites">>

\* the first render has been committed
Mounted ==
    /\ state = InitialState
    /\ queued = InitialState
    /\ dirty = FALSE
    /\ batched = 0
    /\ favoritesSet = FALSE
    /\ effects = MountEffects
    /\ localStorage \in StoredValues
    /\ breedsFetch = "idle"
    /\ requests = [b \in BreedIds |-> 0]

\* Spec does not record what storage held at the mount; SpecReload does
Init == Mounted /\ storedAtMount = Null

\* The passive effects of a commit run in the order the component declares
\* them, and nothing else runs until the last of them has.
Idle == effects = <<>>

\* a handler or a continuation may run before the next render
MayRun == Idle /\ batched < MaxBatch

\* lines 37-42 and 58: the mount effect runs fetchBreeds up to its first await
FetchBreedsEffect ==
    /\ effects # <<>> /\ Head(effects) = "fetchBreeds"
    /\ effects' = Tail(effects)
    /\ queued' = [queued EXCEPT !.loadingBreeds = TRUE, !.error = ""]
    /\ dirty' = TRUE
    /\ breedsFetch' = "pending"
    /\ UNCHANGED <<state, batched, favoritesSet, localStorage, requests, storedAtMount>>

\* lines 62-67
LoadFavoritesEffect ==
    /\ effects # <<>> /\ Head(effects) = "loadFavorites"
    /\ effects' = Tail(effects)
    /\ LET storedFavorites == localStorage
       IN  IF storedFavorites # Null /\ storedFavorites # <<>>
           THEN /\ queued' = [queued EXCEPT !.favorites = JSONparse(storedFavorites)]
                /\ dirty' = TRUE
                /\ favoritesSet' = TRUE
           ELSE UNCHANGED <<queued, dirty, favoritesSet>>
    /\ UNCHANGED <<state, batched, localStorage, breedsFetch, requests, storedAtMount>>

\* lines 70-72
SaveFavoritesEffect ==
    /\ effects # <<>> /\ Head(effects) = "saveFavorites"
    /\ effects' = Tail(effects)
    /\ localStorage' = JSONstringify(state.favorites)
    /\ UNCHANGED <<state, queued, dirty, batched, favoritesSet, breedsFetch, requests,
                   storedAtMount>>

commitEffectsMountOnly(favoritesChanged) == <<>>

\* lines 70-72: the effect is scheduled again when its dependency, favorites,
\* is a new array
commitEffects(favoritesChanged) ==
    IF favoritesChanged THEN <<"saveFavorites">> ELSE <<>>

\* A re-render commits the queued updates and schedules the effects whose
\* dependencies changed.
Render ==
    /\ Idle /\ dirty
    /\ state' = queued
    /\ dirty' = FALSE
    /\ batched' = 0
    /\ favoritesSet' = FALSE
    /\ effects' = commitEffects(favoritesSet)
    /\ UNCHANGED <<queued, localStorage, breedsFetch, requests, storedAtMount>>

\* lines 48-49 and 53-55: GET /v1/breeds succeeds and its body is decoded
BreedsLoaded(data) ==
    /\ MayRun /\ breedsFetch = "pending"
    /\ breedsFetch' = "done"
    /\ queued' = [queued EXCEPT !.breeds = data, !.loadingBreeds = FALSE]
    /\ dirty' = TRUE
    /\ batched' = batched + 1
    /\ UNCHANGED <<state, favoritesSet, effects, localStorage, requests, storedAtMount>>

\* lines 44-46 and 50-55: GET /v1/breeds fails
BreedsFailed(failure) ==
    /\ MayRun /\ breedsFetch = "pending"
    /\ breedsFetch' = "done"
    /\ queued' = [queued EXCEPT !.error = BreedsError, !.loadingBreeds = FALSE]
    /\ dirty' = TRUE
    /\ batched' = batched + 1
    /\ UNCHANGED <<state, favoritesSet, effects, localStorage, requests, storedAtMount>>

\* lines 95-103: fetchImages up to its first await
fetchImagesStart(q, breedId) ==
    IF breedId = ""
    THEN [q EXCEPT !.images = <<>>]
    ELSE [q EXCEPT !.loadingImages = TRUE, !.error = ""]

fetchImagesCatchKeepsImages(q) ==
    [q EXCEPT !.error = ImagesError, !.loadingImages = FALSE]

\* lines 115-121: the catch block, then the finally block
fetchImagesCatch(q) ==
    [q EXCEPT !.error = ImagesError, !.images = <<>>, !.loadingImages = FALSE]

\* lines 113-114 and 119-121: the decoded body, then the finally block
fetchImagesData(q, data) ==
    [q EXCEPT !.images = data, !.loadingImages = FALSE]

RECURSIVE Sum(_, _)
Sum(f, S) == IF S = {} THEN 0 ELSE LET x == CHOOSE y \in S : TRUE IN f[x] + Sum(f, S \ {x})

\* the number of photo requests waiting on the network
Outstanding == Sum(requests, BreedIds)

handleBreedSelectCancels(breedId) ==
    /\ MayRun
    /\ Outstanding < MaxRequests
    /\ queued' = fetchImagesStart(
           [queued EXCEPT !.selectedBreed = breedId, !.showFavorites = FALSE], breedId)
    /\ dirty' = TRUE
    /\ batched' = batched + 1
    /\ requests' = [b \in BreedIds |-> IF b = breedId THEN 1 ELSE 0]
    /\ UNCHANGED <<state, favoritesSet, effects, localStorage, breedsFetch, storedAtMount>>

handleBreedSelectKeepsFavorites(breedId) ==
    /\ MayRun
    /\ Outstanding < MaxRequests
    /\ queued' = fetchImagesStart([queued EXCEPT !.selectedBreed = breedId], breedId)
    /\ dirty' = TRUE
    /\ batched' = batched + 1
    /\ requests' = IF breedId = "" THEN requests
                   ELSE [requests EXCEPT ![breedId] = @ + 1]
    /\ UNCHANGED <<state, favoritesSet, effects, localStorage, breedsFetch, storedAtMount>>

\* lines 124-129
handleBreedSelect(breedId) ==
    /\ MayRun
    /\ Outstanding < MaxRequests
    /\ queued' = fetchImagesStart(
           [queued EXCEPT !.selectedBreed = breedId, !.showFavorites = FALSE], breedId)
    /\ dirty' = TRUE
    /\ batched' = batched + 1
    /\ requests' = IF breedId = "" THEN requests
                   ELSE [requests EXCEPT ![breedId] = @ + 1]
    /\ UNCHANGED <<state, favoritesSet, effects, localStorage, breedsFetch, storedAtMount>>

\* lines 105-114 and 119-121: GET /v1/images/search succeeds and its body is
\* decoded
ImagesLoaded(breedId) ==
    /\ MayRun
    /\ requests[breedId] > 0
    /\ requests' = [requests EXCEPT ![breedId] = @ - 1]
    /\ queued' = fetchImagesData(queued, ImagesData(breedId))
    /\ dirty' = TRUE
    /\ batched' = batched + 1
    /\ UNCHANGED <<state, favoritesSet, effects, localStorage, breedsFetch, storedAtMount>>

\* lines 105-111 and 115-121: GET /v1/images/search fails
ImagesFailed(breedId, failure) ==
    /\ MayRun
    /\ requests[breedId] > 0
    /\ requests' = [requests EXCEPT ![breedId] = @ - 1]
    /\ queued' = fetchImagesCatch(queued)
    /\ dirty' = TRUE
    /\ batched' = batched + 1
    /\ UNCHANGED <<state, favoritesSet, effects, localStorage, breedsFetch, storedAtMount>>

handleOriginSelectKeepsImages(origin) ==
    /\ MayRun
    /\ queued' = [queued EXCEPT !.selectedOrigin = origin, !.selectedBreed = "",
                                !.showFavorites = FALSE]
    /\ dirty' = TRUE
    /\ batched' = batched + 1
    /\ UNCHANGED <<state, favoritesSet, effects, localStorage, breedsFetch, requests,
                   storedAtMount>>

\* lines 131-138
handleOriginSelect(origin) ==
    /\ MayRun
    /\ queued' = [queued EXCEPT !.selectedOrigin = origin, !.selectedBreed = "",
                                !.images = <<>>, !.showFavorites = FALSE]
    /\ dirty' = TRUE
    /\ batched' = batched + 1
    /\ UNCHANGED <<state, favoritesSet, effects, localStorage, breedsFetch, requests,
                   storedAtMount>>

\* line 325
FavoritesButtonClick ==
    /\ MayRun
    /\ queued' = [queued EXCEPT !.showFavorites = ~state.showFavorites]
    /\ dirty' = TRUE
    /\ batched' = batched + 1
    /\ UNCHANGED <<state, favoritesSet, effects, localStorage, breedsFetch, requests,
                   storedAtMount>>

\* Array.prototype.some(fav => fav.id === id)
some(a, id) == \E i \in 1..Len(a) : a[i].id = id

toggleUpdaterNoRemove(prevFavorites, image) == Append(prevFavorites, image)

toggleUpdaterStale(prevFavorites, image) ==
    LET differs(fav) == fav.id # image.id
    IN  IF some(state.favorites, image.id)
        THEN SelectSeq(prevFavorites, differs)
        ELSE Append(prevFavorites, image)

\* lines 165-172: the updater toggleFavorite hands to setFavorites
toggleUpdater(prevFavorites, image) ==
    LET isFavorite == some(prevFavorites, image.id)
        differs(fav) == fav.id # image.id
    IN  IF isFavorite
        THEN SelectSeq(prevFavorites, differs)
        ELSE Append(prevFavorites, image)

\* the hearts rendered by lines 391-418 (the gallery) and 427-456 (the
\* favorites grid)
HeartShown(image) ==
    \/ /\ ~state.loadingImages /\ ~state.showFavorites
       /\ \E i \in 1..Len(state.images) : state.images[i] = image
    \/ /\ state.showFavorites
       /\ \E i \in 1..Len(state.favorites) : state.favorites[i] = image

\* lines 164-173
toggleFavorite(image) ==
    /\ MayRun
    /\ HeartShown(image)
    /\ queued' = [queued EXCEPT !.favorites = toggleUpdater(queued.favorites, image)]
    /\ dirty' = TRUE
    /\ batched' = batched + 1
    /\ favoritesSet' = TRUE
    /\ UNCHANGED <<state, effects, localStorage, breedsFetch, requests, storedAtMount>>

\* lines 289-304: the breed options the last render shows
breedOptions ==
    IF state.loadingBreeds THEN <<>>
    ELSE filteredBreeds(state.breeds, state.selectedOrigin)

\* line 304: a click on a breed option
BreedOptionClick ==
    LET options == breedOptions
    IN  \E i \in 1..Len(options) : handleBreedSelect(options[i].id)

\* lines 227-249: 'All origins', then one option per origin
originOptions == <<<<>>>> \o uniqueOrigins(state.breeds)

\* lines 231 and 243: a click on an origin option
OriginOptionClick ==
    LET options == originOptions
    IN  \E i \in 1..Len(options) : handleOriginSelect(options[i])

Next ==
    \/ FetchBreedsEffect
    \/ LoadFavoritesEffect
    \/ SaveFavoritesEffect
    \/ Render
    \/ \E data \in BreedsData : BreedsLoaded(data)
    \/ \E failure \in Failures : BreedsFailed(failure)
    \/ BreedOptionClick
    \/ \E breedId \in BreedIds : ImagesLoaded(breedId)
    \/ \E breedId \in BreedIds, failure \in Failures : ImagesFailed(breedId, failure)
    \/ OriginOptionClick
    \/ FavoritesButtonClick
    \/ \E image \in Photos : toggleFavorite(image)

Spec == Init /\ [][Next]_vars

(***************************************************************************)
(* SpecReload: a visit in which no favorite is toggled, with the stored    *)
(* value of the mount recorded                                             *)
(***************************************************************************)

ReloadInit == Mounted /\ storedAtMount = localStorage

ReloadNext ==
    \/ FetchBreedsEffect
    \/ LoadFavoritesEffect
    \/ SaveFavoritesEffect
    \/ Render
    \/ \E data \in BreedsData : BreedsLoaded(data)
    \/ \E failure \in Failures : BreedsFailed(failure)
    \/ BreedOptionClick
    \/ \E breedId \in BreedIds : ImagesLoaded(breedId)
    \/ \E breedId \in BreedIds, failure \in Failures : ImagesFailed(breedId, failure)
    \/ OriginOptionClick
    \/ FavoritesButtonClick

SpecReload == ReloadInit /\ [][ReloadNext]_vars

(***************************************************************************)
(* SpecDerive: uniqueOrigins and filteredBreeds over every list of at most *)
(* two breeds whose origins are strings of at most MaxOriginLen characters *)
(***************************************************************************)

MaxOriginLen == 2

DeriveAlphabet == {" ", ",", "E", "e"}

RECURSIVE Strings(_)
Strings(n) ==
    IF n = 0 THEN {<<>>}
    ELSE Strings(n - 1) \cup
         {Append(w, c) : w \in {v \in Strings(n - 1) : Len(v) = n - 1}, c \in DeriveAlphabet}

DeriveOrigins == Strings(MaxOriginLen) \cup {NoOrigin}

DeriveBreedLists ==
    {<<>>} \cup {<<[id |-> "a", origin |-> o]>> : o \in DeriveOrigins}
           \cup {<<[id |-> "a", origin |-> o], [id |-> "b", origin |-> p]>> :
                    o \in DeriveOrigins, p \in DeriveOrigins}

\* the breed list has been fetched and rendered
DeriveInit ==
    /\ \E data \in DeriveBreedLists :
           /\ state = [InitialState EXCEPT !.breeds = data, !.loadingBreeds = FALSE]
           /\ queued = state
    /\ dirty = FALSE
    /\ batched = 0
    /\ favoritesSet = FALSE
    /\ effects = <<>>
    /\ localStorage = JSONstringify(<<>>)
    /\ breedsFetch = "done"
    /\ requests = [b \in BreedIds |-> 0]
    /\ storedAtMount = Null

DeriveNext == OriginOptionClick \/ Render

SpecDerive == DeriveInit /\ [][DeriveNext]_vars

(***************************************************************************)
(* Properties of the derived lists                                         *)
(***************************************************************************)

Range(a) == {a[i] : i \in 1..Len(a)}

\* s, with the spaces at both ends taken off, is t
TrimsTo(s, t) ==
    \E a \in 1..(Len(s) + 1), b \in 0..Len(s) :
        /\ t = SubSeq(s, a, b)
        /\ \A i \in 1..(a - 1) : s[i] = " "
        /\ \A i \in (b + 1)..Len(s) : s[i] = " "
        /\ a <= b => s[a] # " " /\ s[b] # " "
        /\ a > b => a = b + 1

\* the tokens of one origin: each maximal comma-free stretch, trimmed
TokensOf(origin) ==
    {t \in UNION {{SubSeq(origin, a, b) : a \in 1..(Len(origin) + 1)} : b \in 0..Len(origin)} :
        \E i \in 1..(Len(origin) + 1), j \in 0..Len(origin) :
            /\ i <= j + 1
            /\ i = 1 \/ origin[i - 1] = ","
            /\ j = Len(origin) \/ origin[j + 1] = ","
            /\ \A k \in i..j : origin[k] # ","
            /\ TrimsTo(SubSeq(origin, i, j), t)}

PresentOrigins(breeds) ==
    {breeds[i].origin : i \in {k \in 1..Len(breeds) :
        breeds[k].origin # NoOrigin /\ breeds[k].origin # <<>>}}

\* s comes before t in the order of the code units
LexBefore(s, t) ==
    \E k \in 1..(Len(t)) :
        /\ k <= Len(s) + 1
        /\ \A i \in 1..(k - 1) : s[i] = t[i]
        /\ k = Len(s) + 1 \/ CharCode(s[k]) < CharCode(t[k])

\* C9: uniqueOrigins holds exactly the tokens got by splitting each origin
\* that is present on commas and trimming each piece, each once, in
\* ascending order; 'Egypt' and 'Egypt, United States' give 'Egypt',
\* 'United States'.
C9_UniqueOriginsSortedTokens ==
    LET origins == uniqueOrigins(state.breeds)
    IN  /\ Range(origins) = UNION {TokensOf(o) : o \in PresentOrigins(state.breeds)}
        /\ \A i \in 1..Len(origins), j \in 1..Len(origins) :
               i < j => LexBefore(origins[i], origins[j])
        /\ uniqueOrigins(<<BreedA, BreedB>>) = <<Egypt, UnitedStates>>

\* a duplicate piece was dropped and the sort changed the order
C9_Witness ==
    /\ Len(originPieces(state.breeds)) > Len(uniqueOrigins(state.breeds))
    /\ firstOccurrences(originPieces(state.breeds)) # uniqueOrigins(state.breeds)
    /\ \E i \in 1..Len(state.breeds) :
           hasOrigin(state.breeds[i]) /\ "," \in Range(state.breeds[i].origin)
    /\ \E i \in 1..Len(state.breeds) :
           hasOrigin(state.breeds[i]) /\ " " \in Range(state.breeds[i].origin)

CasePairs == {<<"E", "e">>, <<"S", "s">>, <<"U", "u">>}

SameLetter(c, d) == c = d \/ <<c, d>> \in CasePairs \/ <<d, c>> \in CasePairs

\* t occurs in s when the case of the letters is ignored
OccursIgnoringCase(s, t) ==
    \E k \in 0..(Len(s) - Len(t)) : \A j \in 1..Len(t) : SameLetter(s[k + j], t[j])

\* the positions of the breeds the selected origin lets through
Matching(breeds, selectedOrigin) ==
    {i \in 1..Len(breeds) :
        \/ selectedOrigin = <<>>
        \/ /\ breeds[i].origin # NoOrigin
           /\ OccursIgnoringCase(breeds[i].origin, selectedOrigin)}

\* a is the elements of b at the positions P, in b's order
IsSelection(a, b, P) ==
    /\ Len(a) = Cardinality(P)
    /\ \A i \in P : a[Cardinality({j \in P : j <= i})] = b[i]

\* C10: filteredBreeds is every breed when no origin is selected, and
\* otherwise the breeds, in their order, whose origin is present and holds
\* the selected origin as a substring, letter case ignored; so every origin
\* uniqueOrigins offers selects a breed, and 'Egypt' selects both of 'Egypt'
\* and 'Egypt, United States'.
C10_FilteredBreedsBySubstring ==
    /\ state.selectedOrigin = <<>> =>
           filteredBreeds(state.breeds, state.selectedOrigin) = state.breeds
    /\ IsSelection(filteredBreeds(state.breeds, state.selectedOrigin), state.breeds,
                   Matching(state.breeds, state.selectedOrigin))
    /\ \A o \in Range(uniqueOrigins(state.breeds)) :
           filteredBreeds(state.breeds, o) # <<>>
    /\ filteredBreeds(<<BreedA, BreedB>>, Egypt) = <<BreedA, BreedB>>

\* an origin is selected and lets through a breed whose origin spells it
\* in another case only
C10_Witness ==
    /\ state.selectedOrigin # <<>>
    /\ Len(filteredBreeds(state.breeds, state.selectedOrigin)) = 2
    /\ \E i \in 1..2 : ~includes(state.breeds[i].origin, state.selectedOrigin)

(***************************************************************************)
(* Properties of the favorites and of the view                             *)
(***************************************************************************)

\* C1: when the startup effects have run and nothing is left to save, the
\* favorites are the collection that was stored when the component mounted,
\* and the stored value is its serialization again.
C1_FavoritesSurviveReload ==
    (storedAtMount # Null /\ Idle /\ ~favoritesSet) =>
        /\ \E S \in StoredLists :
               storedAtMount = JSONstringify(S) /\ state.favorites = S
        /\ localStorage = storedAtMount

\* two stored favorites have been loaded, rendered and saved again
C1_Witness ==
    /\ Idle /\ ~favoritesSet /\ ~dirty
    /\ Len(state.favorites) = 2
    /\ storedAtMount = JSONstringify(state.favorites)
    /\ localStorage = storedAtMount

TwiceToggled(F, P) == toggleUpdater(toggleUpdater(F, P), P)

\* C2: toggling a photo twice gives back the same photo records, whether the
\* photo was a favorite or not.
C2_ToggleTwiceRestores ==
    \A P \in Photos :
        /\ Range(TwiceToggled(state.favorites, P)) = Range(state.favorites)
        /\ Len(TwiceToggled(state.favorites, P)) = Len(state.favorites)
        /\ Range(TwiceToggled(queued.favorites, P)) = Range(queued.favorites)
        /\ Len(TwiceToggled(queued.favorites, P)) = Len(queued.favorites)

\* a favorite that was not the last one has been toggled twice before the
\* re-render: the same two records, in the other order
C2_Witness ==
    /\ favoritesSet /\ batched = 2
    /\ Len(state.favorites) = 2
    /\ queued.favorites = <<state.favorites[2], state.favorites[1]>>

NoDuplicateIds(a) == \A i \in 1..Len(a), j \in 1..Len(a) : i # j => a[i].id # a[j].id

\* C3: no two favorites share an identifier, in the rendered state and with
\* the queued updates applied.
C3_NoDuplicateFavorites ==
    NoDuplicateIds(state.favorites) /\ NoDuplicateIds(queued.favorites)

\* a photo that was not a favorite has been toggled twice before the
\* re-render
C3_Witness ==
    /\ favoritesSet /\ batched = 2
    /\ state.images # <<>> /\ ~some(state.favorites, state.images[1].id)
    /\ queued.favorites = state.favorites

\* C4: when no effect is pending, the stored value is the serialization of
\* the favorites of the last render.
C4_StorageFollowsFavorites ==
    Idle => localStorage = JSONstringify(state.favorites)

\* favorites that only toggling can produce have been saved
C4_Witness ==
    /\ Idle
    /\ state.favorites = <<CatImage("y"), CatImage("x")>>
    /\ localStorage = JSONstringify(state.favorites)

\* C5: handleOriginSelect leaves no breed selected and no photo listed.
C5_OriginSelectClears ==
    [][(\E origin \in Origins : handleOriginSelect(origin)) =>
           queued'.selectedBreed = "" /\ queued'.images = <<>>]_vars

\* an origin has been selected while photos were shown and a photo request
\* was waiting
C5_Witness ==
    /\ batched = 1
    /\ state.selectedBreed # "" /\ queued.selectedBreed = ""
    /\ state.images # <<>> /\ queued.images = <<>>
    /\ Outstanding > 0

\* C6: a failed photo fetch leaves no photo listed, an error message, and
\* loadingImages false.
C6_FailedFetchClears ==
    [][(\E breedId \in BreedIds, failure \in Failures : ImagesFailed(breedId, failure)) =>
           /\ queued'.images = <<>>
           /\ queued'.error # ""
           /\ ~queued'.loadingImages]_vars

\* a photo fetch has failed while photos of an earlier fetch were shown
C6_Witness ==
    /\ batched = 1
    /\ state.images # <<>> /\ queued.images = <<>>
    /\ state.error = "" /\ queued.error = ImagesError
    /\ queued.selectedBreed # ""

\* C7: whenever an error message is shown, a breed option is there to select.
C7_RetryAlwaysPossible ==
    state.error # "" => breedOptions # <<>>

\* C8: handleBreedSelect and handleOriginSelect leave showFavorites false,
\* and only the favorites button makes it true.
C8_SelectExitsFavorites ==
    [][/\ (\/ \E breedId \in BreedIds : handleBreedSelect(breedId)
           \/ \E origin \in Origins : handleOriginSelect(origin))
          => ~queued'.showFavorites
       /\ (~queued.showFavorites /\ queued'.showFavorites) => FavoritesButtonClick
       /\ (~state.showFavorites /\ state'.showFavorites) => Render]_vars

\* a breed has been selected in the favorites view
C8_Witness ==
    /\ batched = 1
    /\ state.showFavorites /\ ~queued.showFavorites
    /\ queued.selectedBreed # state.selectedBreed /\ queued.selectedBreed # ""

(***************************************************************************)
(* Properties of the photo requests and of the panels                      *)
(***************************************************************************)

\* the render conditions of the panels under the breed controls, read from
\* the values of the render
ErrorMessagePanel == state.error # "" /\ ~state.showFavorites

LoadingSpinnerPanel == state.loadingImages /\ ~state.showFavorites

ImagesGridPanel ==
    ~state.loadingImages /\ Len(state.images) > 0 /\ ~state.showFavorites

NoImagesMessagePanel ==
    /\ ~state.loadingImages
    /\ state.selectedBreed # ""
    /\ Len(state.images) = 0
    /\ state.error = ""
    /\ ~state.showFavorites

InitialStatePanel ==
    state.selectedBreed = "" /\ ~state.loadingBreeds /\ ~state.showFavorites

PanelsRendered ==
    {p \in {"Initial", "LoadingPhotos", "PhotosShown", "EmptyResult", "ErrorShown"} :
        \/ p = "Initial" /\ InitialStatePanel
        \/ p = "LoadingPhotos" /\ LoadingSpinnerPanel
        \/ p = "PhotosShown" /\ ImagesGridPanel
        \/ p = "EmptyResult" /\ NoImagesMessagePanel
        \/ p = "ErrorShown" /\ ErrorMessagePanel}

\* C11: a breed selection takes no photo request back, so only a response
\* or a failure ends a request, and a response sets the photo list (a
\* failure the message) whatever breed is selected by then: photos of
\* another breed than the selected one can be shown.
C11_StaleResponseOverwrites ==
    [][/\ \A b \in BreedIds :
              requests'[b] < requests[b] =>
                  \/ ImagesLoaded(b)
                  \/ \E failure \in Failures : ImagesFailed(b, failure)
       /\ \A b \in BreedIds :
              handleBreedSelect(b) => requests'[b] = requests[b] + 1
       /\ \A b \in BreedIds :
              ImagesLoaded(b) => queued'.images = ImagesData(b)
       /\ \A b \in BreedIds, failure \in Failures :
              ImagesFailed(b, failure) => queued'.error = ImagesError]_vars

\* breed b is selected, both responses have arrived, and the photo of breed
\* a is what the render shows
C11_Witness ==
    /\ ~dirty /\ Outstanding = 0
    /\ state.selectedBreed = "b"
    /\ state.images = ImagesData("a")
    /\ ~state.loadingImages

\* C12: every render shows at most one of the panels Initial, LoadingPhotos,
\* PhotosShown, EmptyResult and ErrorShown, and none of them while the
\* favorites are shown.
C12_SinglePanel ==
    /\ Cardinality(PanelsRendered) <= 1
    /\ state.showFavorites => PanelsRendered = {}

\* C13: loadingImages is true exactly when some photo request started by a
\* breed selection has delivered neither its response nor its failure; read
\* at the renders that have no update pending, where the rendered flag is
\* the current one.
C13_LoadingTracksRequests ==
    ~dirty => (state.loadingImages <=> Outstanding > 0)

\* C14: at every step after a mount, also before the loaded favorites are
\* rendered, the value under 'cat-favorites' holds every photo that was
\* stored before the mount (SpecReload removes no favorite).
C14_StoredFavoritesKept ==
    storedAtMount # Null =>
        /\ localStorage # Null
        /\ \A image \in Range(JSONparse(storedAtMount)) :
               some(JSONparse(localStorage), image.id)

====
